---- MODULE Spec2Model ----
(***************************************************************************)
(* Model of the Hyperproof API scripts add_proof_to_control.py and         *)
(* call_hyperproof_api.py.  One process runs one of the two scripts and    *)
(* invokes its operations one after another.  An operation blocks on the   *)
(* token request and then on its action request, so each operation is cut  *)
(* at those two points: the call up to the token request, the code that    *)
(* runs when the token endpoint answers, and the code that runs when the   *)
(* action endpoint answers.  The remote endpoints are the environment.     *)
(***************************************************************************)
EXTENDS Integers, Sequences, FiniteSets, TLC

\* ------------------------------------------------------------------------
\* Bounds
\* ------------------------------------------------------------------------
\* number of operation invocations in one run of the process
MaxCalls == 2

\* ------------------------------------------------------------------------
\* Python values
\* ------------------------------------------------------------------------
\* Every record constructor of this module lists its fields in the order in
\* which the field names first occur in the module text.  That is the order
\* TLC sorts a record's fields into; a constructor written in another order
\* is sorted in place on first use, which is not safe with several workers.
None == [t |-> "None"]
True == [t |-> "bool", b |-> TRUE]
Str(s) == [t |-> "str", s |-> s]
List == [t |-> "list"]
Dict(d) == [t |-> "dict", d |-> d]
EmptyDict == Dict(<<>>)

\* Python's truth test, as used by `if access_token:` and `if content_type:`
Truthy(v) ==
    CASE v.t = "None" -> FALSE
      [] v.t = "str"  -> v.s # ""
      [] v.t = "bool" -> v.b
      [] v.t = "dict" -> DOMAIN v.d # {}
      [] v.t = "list" -> FALSE

\* dict.get(key): the value under key, None when the key is missing
DictGet(v, key) == IF key \in DOMAIN v.d THEN v.d[key] ELSE None

\* ------------------------------------------------------------------------
\* The two scripts and their module-level configuration
\* ------------------------------------------------------------------------
ScriptA == "add_proof_to_control.py"
ScriptC == "call_hyperproof_api.py"
Scripts == {ScriptA, ScriptC}

\* A URL is the sequence of its "/" separators and the text between them,
\* so that f-string concatenation is sequence concatenation.
Origin == <<"https:", "/", "/", "api.hyperproof.app">>
OAUTH_TOKEN_URL == <<"https:", "/", "/", "accounts.hyperproof.app", "/", "oauth", "/", "token">>
PROOF_API_URL == Origin \o <<"/", "v1", "/", "proof", "/">>
LABELS_API_URL == Origin \o <<"/", "v1", "/", "labels", "/">>
\* CONTROLS_API_URL differs between the two files
CONTROLS_API_URL(s) ==
    IF s = ScriptC THEN Origin \o <<"/", "v1", "/", "controls", "/">>
                   ELSE Origin \o <<"/", "v1", "/", "controls">>

\* the path of a URL: everything after scheme and host
UrlPath(url) == SubSeq(url, Len(Origin) + 1, Len(url))

\* ------------------------------------------------------------------------
\* Inputs: environment variables, arguments, the file system
\* ------------------------------------------------------------------------
\* os.environ.get(...) is None when unset, and may be the empty string
EnvValues == {None, Str(""), Str("id-1")}

ControlIds == {"C1", "C2"}
ProofIds == {"P1"}
LabelIds == {"L1"}
Files == {"pony.png", "missing.bin"}
\* the paths that exist on disk
ExistingFiles == {"pony.png"}
ContentTypes == {None, Str(""), Str("application/pdf")}

\* ------------------------------------------------------------------------
\* What an endpoint can answer
\* ------------------------------------------------------------------------
\* HTTP status codes (informational codes never reach the caller)
Statuses == {200, 201, 204, 304, 400, 401, 403, 404, 500}

\* A body either does not decode as JSON (response.json() raises; which
\* class it raises depends on the installed requests version) or decodes
\* to a Python value.
Undecodable == {[ok |-> FALSE, exc |-> e] : e \in {"RequestException", "JSONDecodeError"}}
Decoded(v) == [ok |-> TRUE, value |-> v]

TokenStrings == {"tokA", "tokB"}
TokenBodies ==
    Undecodable
    \cup {Decoded(None), Decoded(List), Decoded(EmptyDict)}
    \cup {Decoded(Dict([k \in {"access_token"} |-> v])) :
              v \in {None, Str("")} \cup {Str(s) : s \in TokenStrings}}

ActionBodies ==
    Undecodable
    \cup {Decoded(None), Decoded(List), Decoded(EmptyDict),
          Decoded(Dict([k \in {"id"} |-> Str("N1")]))}

\* requests.post/get either raises a RequestException (no connection,
\* timeout, ...) or returns a response
NetworkFailure == [raised |-> TRUE]
Response(status, body) == [raised |-> FALSE, status |-> status, body |-> body]
TokenReplies == {NetworkFailure} \cup {Response(s, b) : s \in Statuses, b \in TokenBodies}
ActionReplies == {NetworkFailure} \cup {Response(s, b) : s \in Statuses, b \in ActionBodies}

\* ------------------------------------------------------------------------
\* get_access_token
\* ------------------------------------------------------------------------
\* the POST that get_access_token sends
TokenRequest(client_id, client_secret) ==
    [url |-> OAUTH_TOKEN_URL, to |-> "token", method |-> "POST",
     data |-> [client_id |-> client_id, client_secret |-> client_secret,
               grant_type |-> Str("client_credentials")],
     headers |-> ("Content-Type" :> "application/x-www-form-urlencoded")]

\* What get_access_token does once requests.post has returned or raised:
\* ret is the returned value, exc the exception that leaves the function
\* ("none" when it returns), out what it printed.
get_access_token(r) ==
    IF r.raised
      THEN [exc |-> "none", ret |-> None, out |-> <<"print:token network error">>]
    ELSE IF r.status = 200
      THEN IF ~r.body.ok
             THEN IF r.body.exc = "RequestException"
                    THEN [exc |-> "none", ret |-> None, out |-> <<"print:token network error">>]
                    ELSE [exc |-> "none", ret |-> None, out |-> <<"print:token json decode error">>]
           ELSE IF r.body.value.t # "dict"
             \* token_data.get on a value that is not a dict
             THEN [exc |-> "AttributeError", ret |-> None, out |-> <<>>]
           ELSE IF Truthy(DictGet(r.body.value, "access_token"))
             THEN [exc |-> "none", ret |-> DictGet(r.body.value, "access_token"),
                   out |-> <<"print:token obtained">>]
             ELSE [exc |-> "none", ret |-> None, out |-> <<"print:access_token not found">>]
    \* no else branch: the function ends and returns None
    ELSE [exc |-> "none", ret |-> None, out |-> <<>>]

\* ------------------------------------------------------------------------
\* Helpers shared by the operations
\* ------------------------------------------------------------------------
\* f-string interpolation of a value
PyFormat(v) == IF v.t = "str" THEN v.s ELSE IF v.t = "None" THEN "None" ELSE "?"

\* as halts_without_token, testing for the empty string only
halts_without_token_only_empty(access_token) ==
    access_token.t = "str" /\ access_token.s = ""

\* `if not access_token:` followed by sys.exit(1)
halts_without_token(access_token) == ~Truthy(access_token)

\* response.raise_for_status(): raises HTTPError for 4xx and 5xx
raise_for_status(status) == 400 <= status /\ status < 600

\* `with open(file_to_upload, 'rb') as f`: open raises FileNotFoundError
\* for a path that does not exist
open_raises(path) == path \notin ExistingFiles
\* the file object f of an opened path
FileObj(path) == [handle |-> path]

\* as with_exit, for a file closed by f.close() after raise_for_status
\* instead of a `with` block: an exception skips the close
with_exit_close_skipped(f, r) ==
    f /\ (r.raised \/ raise_for_status(r.status))

\* whether the file is still open once the `with` block has been left:
\* the block closes it on every way out, by exception as well
with_exit(f, r) == FALSE

\* as files_payload, with the content type always passed on
files_payload_always_typed(file_to_upload, content_type) ==
    [proof |-> <<file_to_upload, FileObj(file_to_upload), PyFormat(content_type)>>]

\* the value of the `proof` entry of files_payload chosen by
\* `if content_type:` in the three uploads that take a content_type
files_payload(file_to_upload, content_type) ==
    IF Truthy(content_type)
      THEN [proof |-> <<file_to_upload, FileObj(file_to_upload), PyFormat(content_type)>>]
      ELSE [proof |-> <<file_to_upload, FileObj(file_to_upload)>>]

\* What the code after the token check does up to its request:
\*   sent = TRUE : the request req was issued (opened: a file is open)
\*   sent = FALSE: the operation ended with value (or with exception exc)
Issued(req, opened, out) ==
    [exc |-> "none", out |-> out, req |-> req, opened |-> opened, sent |-> TRUE]
Ended(value, out) ==
    [exc |-> "none", value |-> value, out |-> out, opened |-> FALSE, sent |-> FALSE]
Escaped(exc, out) ==
    [exc |-> exc, value |-> None, out |-> out, opened |-> FALSE, sent |-> FALSE]

\* What the code after the request does: the returned value and the output
Returned(value, out) == [value |-> value, out |-> out]

\* as json_or_none, without the call of raise_for_status
json_or_none_unchecked_status(r, info) ==
    IF r.raised
      THEN Returned(None, <<"logger.error:unexpected error">>)
    ELSE IF ~r.body.ok
      THEN Returned(None, <<info, "logger.error:unexpected error">>)
    ELSE Returned(r.body.value, <<info>>)

\* the tail shared by the four uploads and create_label: raise_for_status,
\* logger.info, `return response.json()` and the except clauses
json_or_none(r, info) ==
    IF r.raised
      THEN Returned(None, <<"logger.error:unexpected error">>)
    ELSE IF raise_for_status(r.status)
      THEN Returned(None, <<"logger.error:HTTP error">>)
    ELSE IF ~r.body.ok
      THEN Returned(None, <<info, "logger.error:unexpected error">>)
    ELSE Returned(r.body.value, <<info>>)

\* ------------------------------------------------------------------------
\* add_proof
\* ------------------------------------------------------------------------
add_proof_send(s, o, access_token) ==
    LET headers == ("Authorization" :> ("Bearer " \o PyFormat(access_token)))
                   @@ ("Accept" :> "application/json")
        data == IF Truthy(o.object_id) /\ Truthy(o.object_type)
                  THEN [objectId |-> o.object_id, objectType |-> o.object_type]
                  ELSE <<>>
    IN IF open_raises(o.file_to_upload)
         THEN Ended(None, <<"print:uploading proof file", "logger.error:File not found">>)
         ELSE Issued([url |-> PROOF_API_URL, to |-> "action", method |-> "POST",
                      data |-> data,
                      headers |-> headers,
                      files |-> [proof |-> <<o.file_to_upload, FileObj(o.file_to_upload),
                                             "application/json">>]],
                     TRUE, <<"print:uploading proof file", "print:open">>)

add_proof_finish(o, r) == json_or_none(r, "logger.info:added proof")

\* ------------------------------------------------------------------------
\* add_proof_version
\* ------------------------------------------------------------------------
add_proof_version_send(s, o, access_token) ==
    LET headers == ("Authorization" :> ("Bearer " \o PyFormat(access_token)))
                   @@ ("Accept" :> "application/json")
        version_url == PROOF_API_URL \o <<"/", o.proof_id, "/", "versions">>
    IN IF open_raises(o.file_to_upload)
         THEN Ended(None, <<"print:uploading new version", "logger.error:File not found">>)
         ELSE Issued([url |-> version_url, to |-> "action", method |-> "POST",
                      headers |-> headers,
                      files |-> files_payload(o.file_to_upload, o.content_type)],
                     TRUE, <<"print:uploading new version">>)

add_proof_version_finish(o, r) == json_or_none(r, "logger.info:added new version")

\* ------------------------------------------------------------------------
\* add_control_proof
\* ------------------------------------------------------------------------
add_control_proof_send(s, o, access_token) ==
    LET headers == ("Authorization" :> ("Bearer " \o PyFormat(access_token)))
                   @@ ("Accept" :> "application/json")
        control_proof_url == CONTROLS_API_URL(s) \o <<"/", o.control_id, "/", "proof">>
    IN IF open_raises(o.file_to_upload)
         THEN Ended(None, <<"print:uploading proof for control", "logger.error:File not found">>)
         ELSE Issued([url |-> control_proof_url, to |-> "action", method |-> "POST",
                      headers |-> headers,
                      files |-> files_payload(o.file_to_upload, o.content_type)],
                     TRUE, <<"print:uploading proof for control">>)

add_control_proof_finish(o, r) == json_or_none(r, "logger.info:added proof to control")

\* ------------------------------------------------------------------------
\* create_label
\* ------------------------------------------------------------------------
create_label_send(s, o, access_token) ==
    LET headers == ("Authorization" :> ("Bearer " \o PyFormat(access_token)))
                   @@ ("Accept" :> "application/json")
                   @@ ("Content-Type" :> "application/json")
        payload == [name |-> o.label_name, description |-> o.description]
    IN Issued([url |-> LABELS_API_URL, to |-> "action", method |-> "POST",
               headers |-> headers, json |-> payload],
              FALSE, <<"print:creating label">>)

create_label_finish(o, r) == json_or_none(r, "logger.info:created label")

\* ------------------------------------------------------------------------
\* add_label_proof
\* ------------------------------------------------------------------------
\* as add_label_proof_send, with the file opened before the try block
add_label_proof_send_open_outside_try(s, o, access_token) ==
    LET headers == ("Authorization" :> ("Bearer " \o PyFormat(access_token)))
                   @@ ("Accept" :> "application/json")
        label_proof_url == LABELS_API_URL \o <<"/", o.label_id, "/", "proof">>
    IN IF open_raises(o.file_to_upload)
         THEN Escaped("FileNotFoundError", <<"print:uploading proof for label">>)
         ELSE Issued([url |-> label_proof_url, to |-> "action", method |-> "POST",
                      headers |-> headers,
                      files |-> files_payload(o.file_to_upload, o.content_type)],
                     TRUE, <<"print:uploading proof for label">>)

add_label_proof_send(s, o, access_token) ==
    LET headers == ("Authorization" :> ("Bearer " \o PyFormat(access_token)))
                   @@ ("Accept" :> "application/json")
        label_proof_url == LABELS_API_URL \o <<"/", o.label_id, "/", "proof">>
    IN IF open_raises(o.file_to_upload)
         THEN Ended(None, <<"print:uploading proof for label", "logger.error:File not found">>)
         ELSE Issued([url |-> label_proof_url, to |-> "action", method |-> "POST",
                      headers |-> headers,
                      files |-> files_payload(o.file_to_upload, o.content_type)],
                     TRUE, <<"print:uploading proof for label">>)

add_label_proof_finish(o, r) == json_or_none(r, "logger.info:added proof to label")

\* ------------------------------------------------------------------------
\* link_label_to_control
\* ------------------------------------------------------------------------
link_label_to_control_send(s, o, access_token) ==
    LET headers == ("Authorization" :> ("Bearer " \o PyFormat(access_token)))
                   @@ ("Accept" :> "application/json")
        link_url == CONTROLS_API_URL(s) \o <<"/", o.control_id, "/", "labels", "/", o.label_id>>
    IN Issued([url |-> link_url, to |-> "action", method |-> "POST", headers |-> headers],
              FALSE, <<"print:linking label">>)

\* as link_label_to_control_finish, returning the response body like the
\* other operations
link_label_to_control_finish_payload(o, r) ==
    json_or_none(r, "logger.info:linked label to control")

link_label_to_control_finish(o, r) ==
    IF r.raised
      THEN Returned(None, <<"logger.error:unexpected error">>)
    ELSE IF raise_for_status(r.status)
      THEN Returned(None, <<"logger.error:HTTP error">>)
    ELSE Returned(True, <<"logger.info:linked label to control">>)

\* ------------------------------------------------------------------------
\* fetch_hyperproof_controls
\* ------------------------------------------------------------------------
\* the check at the top of fetch_hyperproof_controls, before the token call
credentials_missing(client_id, client_secret) ==
    ~Truthy(client_id) \/ ~Truthy(client_secret)

fetch_hyperproof_controls_send(s, o, access_token) ==
    LET headers == ("Authorization" :> ("Bearer " \o PyFormat(access_token)))
                   @@ ("Content-Type" :> "application/json")
    IN Issued([url |-> CONTROLS_API_URL(s), to |-> "action", method |-> "GET",
               headers |-> headers],
              FALSE, <<"print:fetching controls">>)

\* every path falls off the end of the function: the result is always None
fetch_hyperproof_controls_finish(o, r) ==
    IF r.raised
      THEN Returned(None, <<"print:network error">>)
    ELSE IF r.status = 200
      THEN IF ~r.body.ok
             THEN IF r.body.exc = "RequestException"
                    THEN Returned(None, <<"print:network error">>)
                    ELSE Returned(None, <<"print:json decode error">>)
             ELSE Returned(None, <<"print:fetched controls", "print:controls data">>)
    ELSE IF r.status = 401 \/ r.status = 403
      THEN Returned(None, <<"print:API returned status code", "print:hint">>)
    ELSE Returned(None, <<"print:API returned status code">>)

\* ------------------------------------------------------------------------
\* State
\* ------------------------------------------------------------------------
VARIABLES
    script,         \* which of the two files the process runs
    CLIENT_ID,      \* module-level globals read from the environment
    CLIENT_SECRET,
    pc,             \* "idle" | "token_wait" | "action_wait" | "terminated"
    op,             \* the invocation in progress (or the last one): name and arguments
    access_token,   \* the local variable access_token of that invocation
    sent,           \* the HTTP requests issued by that invocation, in order
    tokenReply,     \* what the token endpoint answered (NoReply before)
    tokenOutcome,   \* how the get_access_token call ended (NoOutcome before)
    actionReply,    \* what the action endpoint answered (NoReply before)
    result,         \* how the invocation ended
    out,            \* what the invocation printed and logged, in order
    fileOpen,       \* the file handle of the `with open` block is open
    calls,          \* number of invocations started
    earlier,        \* the token strings obtained by the earlier invocations
    mainStep,       \* position in the __main__ block ("off": not running it)
    new_label_id,   \* the variable new_label_id of the __main__ block
    mainExc         \* the exception a statement of the __main__ block raised

vars == <<script, CLIENT_ID, CLIENT_SECRET, pc, op, access_token, sent,
          tokenReply, tokenOutcome, actionReply, result, out, fileOpen, calls,
          earlier, mainStep, new_label_id, mainExc>>

\* the variables of the __main__ block
mainVars == <<mainStep, new_label_id, mainExc>>

\* a name that has not been assigned
Unbound == [t |-> "unbound"]

NoOp == [name |-> "none"]
NoReply == [raised |-> FALSE, status |-> 0, body |-> Decoded(None)]
NoOutcome == [exc |-> "pending", ret |-> None, out |-> <<>>]

\* how an invocation ended
Running == [kind |-> "running"]
Return(v) == [value |-> v, kind |-> "return"]
Exit(n) == [status |-> n, kind |-> "exit"]
Raise(e) == [exc |-> e, kind |-> "raise"]

\* the operations each file defines
OpsOf(s) ==
    IF s = ScriptC
      THEN {"fetch_hyperproof_controls", "add_proof", "add_proof_version", "add_control_proof"}
      ELSE {"add_proof", "add_proof_version", "add_control_proof",
            "create_label", "add_label_proof", "link_label_to_control"}

UploadOps == {"add_proof", "add_proof_version", "add_control_proof", "add_label_proof"}

Init ==
    /\ script \in Scripts
    /\ CLIENT_ID \in EnvValues
    /\ CLIENT_SECRET \in EnvValues
    /\ pc = "idle"
    /\ op = NoOp
    /\ access_token = None
    /\ sent = <<>>
    /\ tokenReply = NoReply
    /\ tokenOutcome = NoOutcome
    /\ actionReply = NoReply
    /\ result = Running
    /\ out = <<>>
    /\ fileOpen = FALSE
    /\ calls = 0
    /\ earlier = {}
    /\ mainStep = "off"
    /\ new_label_id = Unbound
    /\ mainExc = "none"

\* ------------------------------------------------------------------------
\* Entering an operation
\* ------------------------------------------------------------------------
\* as Begin, with the token request issued a second time
Begin_token_twice(o) ==
    /\ pc = "idle"
    /\ o.name \in OpsOf(script)
    /\ op' = o
    /\ calls' = calls + 1
    /\ earlier' = IF Truthy(access_token) THEN earlier \cup {access_token.s} ELSE earlier
    /\ access_token' = None
    /\ tokenReply' = NoReply
    /\ tokenOutcome' = NoOutcome
    /\ actionReply' = NoReply
    /\ result' = Running
    /\ fileOpen' = FALSE
    /\ out' = <<"print:fetching access token">>
    /\ sent' = <<TokenRequest(CLIENT_ID, CLIENT_SECRET), TokenRequest(CLIENT_ID, CLIENT_SECRET)>>
    /\ pc' = "token_wait"
    /\ UNCHANGED <<script, CLIENT_ID, CLIENT_SECRET>>

\* Operation o is invoked: it calls get_access_token, which prints and
\* issues the token request.  Nothing of the previous invocation is kept;
\* the token it had obtained is remembered in earlier.
Begin(o) ==
    /\ pc = "idle"
    /\ o.name \in OpsOf(script)
    /\ op' = o
    /\ calls' = calls + 1
    /\ earlier' = IF Truthy(access_token) THEN earlier \cup {access_token.s} ELSE earlier
    /\ access_token' = None
    /\ tokenReply' = NoReply
    /\ tokenOutcome' = NoOutcome
    /\ actionReply' = NoReply
    /\ result' = Running
    /\ fileOpen' = FALSE
    /\ out' = <<"print:fetching access token">>
    /\ sent' = <<TokenRequest(CLIENT_ID, CLIENT_SECRET)>>
    /\ pc' = "token_wait"
    /\ UNCHANGED <<script, CLIENT_ID, CLIENT_SECRET>>

\* an invocation chosen freely among the operations of the script
Enter(o) ==
    /\ calls < MaxCalls
    /\ Begin(o)
    /\ UNCHANGED mainVars

\* fetch_hyperproof_controls checks the credentials first and exits
\* without them
Call_fetch_hyperproof_controls ==
    LET o == [name |-> "fetch_hyperproof_controls"] IN
    IF credentials_missing(CLIENT_ID, CLIENT_SECRET)
      THEN /\ pc = "idle"
           /\ calls < MaxCalls
           /\ o.name \in OpsOf(script)
           /\ op' = o
           /\ calls' = calls + 1
           /\ earlier' = IF Truthy(access_token) THEN earlier \cup {access_token.s} ELSE earlier
           /\ access_token' = None
           /\ tokenReply' = NoReply
           /\ tokenOutcome' = NoOutcome
           /\ actionReply' = NoReply
           /\ fileOpen' = FALSE
           /\ sent' = <<>>
           /\ out' = <<"print:CLIENT_ID or CLIENT_SECRET not set">>
           /\ result' = Exit(1)
           /\ pc' = "terminated"
           /\ UNCHANGED <<script, CLIENT_ID, CLIENT_SECRET>>
           /\ UNCHANGED mainVars
      ELSE Enter(o)

Call_add_proof ==
    \E f \in Files, oid \in {None, Str("C1")}, oty \in {None, Str("controls")} :
        Enter([file_to_upload |-> f, object_id |-> oid, object_type |-> oty,
               name |-> "add_proof"])

Call_add_proof_version ==
    \E p \in ProofIds, f \in Files, ct \in ContentTypes :
        Enter([file_to_upload |-> f, content_type |-> ct, proof_id |-> p,
               name |-> "add_proof_version"])

Call_add_control_proof ==
    \E c \in ControlIds, f \in Files, ct \in ContentTypes :
        Enter([file_to_upload |-> f, content_type |-> ct, control_id |-> c,
               name |-> "add_control_proof"])

Call_create_label ==
    \E d \in {"", "All evidence"} :
        Enter([name |-> "create_label", label_name |-> "Shared Evidence",
               description |-> d])

Call_add_label_proof ==
    \E l \in LabelIds, f \in Files, ct \in ContentTypes :
        Enter([file_to_upload |-> f, content_type |-> ct,
               name |-> "add_label_proof", label_id |-> l])

Call_link_label_to_control ==
    \E c \in ControlIds, l \in LabelIds :
        Enter([control_id |-> c, name |-> "link_label_to_control", label_id |-> l])

\* ------------------------------------------------------------------------
\* The token endpoint answers
\* ------------------------------------------------------------------------
\* as SendOf, with the token of an earlier invocation used when there is one
SendOf_cached_token(s, o, tok) ==
    LET t == IF earlier # {} THEN Str(CHOOSE x \in earlier : TRUE) ELSE tok IN
    CASE o.name = "add_proof" -> add_proof_send(s, o, t)
      [] o.name = "add_proof_version" -> add_proof_version_send(s, o, t)
      [] o.name = "add_control_proof" -> add_control_proof_send(s, o, t)
      [] o.name = "create_label" -> create_label_send(s, o, t)
      [] o.name = "add_label_proof" -> add_label_proof_send(s, o, t)
      [] o.name = "link_label_to_control" -> link_label_to_control_send(s, o, t)
      [] o.name = "fetch_hyperproof_controls" -> fetch_hyperproof_controls_send(s, o, t)

\* the code of operation o between its token check and its request
SendOf(s, o, tok) ==
    CASE o.name = "add_proof" -> add_proof_send(s, o, tok)
      [] o.name = "add_proof_version" -> add_proof_version_send(s, o, tok)
      [] o.name = "add_control_proof" -> add_control_proof_send(s, o, tok)
      [] o.name = "create_label" -> create_label_send(s, o, tok)
      [] o.name = "add_label_proof" -> add_label_proof_send(s, o, tok)
      [] o.name = "link_label_to_control" -> link_label_to_control_send(s, o, tok)
      [] o.name = "fetch_hyperproof_controls" -> fetch_hyperproof_controls_send(s, o, tok)

\* the code of operation o after its request
FinishOf(o, r) ==
    CASE o.name = "add_proof" -> add_proof_finish(o, r)
      [] o.name = "add_proof_version" -> add_proof_version_finish(o, r)
      [] o.name = "add_control_proof" -> add_control_proof_finish(o, r)
      [] o.name = "create_label" -> create_label_finish(o, r)
      [] o.name = "add_label_proof" -> add_label_proof_finish(o, r)
      [] o.name = "link_label_to_control" -> link_label_to_control_finish(o, r)
      [] o.name = "fetch_hyperproof_controls" -> fetch_hyperproof_controls_finish(o, r)

\* get_access_token finishes; the operation checks the token and runs on
\* to its action request (or to the end, when it ends before it)
TokenReply ==
    /\ pc = "token_wait"
    /\ \E r \in TokenReplies :
        LET g == get_access_token(r) IN
        /\ tokenReply' = r
        /\ tokenOutcome' = g
        /\ IF g.exc # "none"
             \* the exception passes through the operation to its caller
             THEN /\ access_token' = access_token
                  /\ out' = out \o g.out
                  /\ result' = Raise(g.exc)
                  /\ pc' = "terminated"
                  /\ UNCHANGED <<sent, fileOpen>>
           ELSE IF halts_without_token(g.ret)
             THEN /\ access_token' = g.ret
                  /\ out' = out \o g.out \o <<"print:Halting script">>
                  /\ result' = Exit(1)
                  /\ pc' = "terminated"
                  /\ UNCHANGED <<sent, fileOpen>>
           ELSE LET a == SendOf(script, op, g.ret) IN
                  /\ access_token' = g.ret
                  /\ out' = out \o g.out \o a.out
                  /\ IF a.sent
                       THEN /\ sent' = Append(sent, a.req)
                            /\ fileOpen' = a.opened
                            /\ result' = result
                            /\ pc' = "action_wait"
                     ELSE IF a.exc # "none"
                       THEN /\ result' = Raise(a.exc)
                            /\ pc' = "terminated"
                            /\ UNCHANGED <<sent, fileOpen>>
                       ELSE /\ result' = Return(a.value)
                            /\ pc' = "idle"
                            /\ UNCHANGED <<sent, fileOpen>>
    /\ UNCHANGED <<script, CLIENT_ID, CLIENT_SECRET, op, actionReply, calls, earlier>>
    /\ UNCHANGED mainVars

\* ------------------------------------------------------------------------
\* The action endpoint answers
\* ------------------------------------------------------------------------
\* the operation classifies the outcome and returns; leaving the `with`
\* block closes the file
ActionReply ==
    /\ pc = "action_wait"
    /\ \E r \in ActionReplies :
        LET e == FinishOf(op, r) IN
        /\ actionReply' = r
        /\ out' = out \o e.out
        /\ result' = Return(e.value)
        /\ fileOpen' = with_exit(fileOpen, r)
    /\ pc' = "idle"
    /\ UNCHANGED <<script, CLIENT_ID, CLIENT_SECRET, op, access_token, sent,
                   tokenReply, tokenOutcome, calls, earlier>>
    /\ UNCHANGED mainVars

Next ==
    \/ Call_fetch_hyperproof_controls
    \/ Call_add_proof
    \/ Call_add_proof_version
    \/ Call_add_control_proof
    \/ Call_create_label
    \/ Call_add_label_proof
    \/ Call_link_label_to_control
    \/ TokenReply
    \/ ActionReply

Spec == Init /\ [][Next]_vars

\* ------------------------------------------------------------------------
\* The __main__ block of add_proof_to_control.py: create_label,
\* add_label_proof, link_label_to_control twice, each a blocking call
\* ------------------------------------------------------------------------
file_path == "pony.png"
new_label_name == "Sophia Shared Evidence"
new_label_desc == "All evidence collected for the Q4 2025 audit"
control_id_A == "e0683e57-b3d1-11f0-a50c-5a2610f6476"
control_id_B == "66487523-b549-11f0-a533-66e583c0e6b"

\* v[key] on a Python value: KeyError for a dict without the key,
\* TypeError for a value that takes no string subscript
Subscript(v, key) ==
    IF v.t = "dict"
      THEN IF key \in DOMAIN v.d
             THEN [exc |-> "none", value |-> v.d[key]]
             ELSE [exc |-> "KeyError", value |-> None]
      ELSE [exc |-> "TypeError", value |-> None]

\* `if label_response: new_label_id = label_response['id']`: the name is
\* bound only in the branch, and stays unbound when the test fails
bind_new_label_id(label_response) ==
    IF Truthy(label_response)
      THEN Subscript(label_response, "id")
      ELSE [exc |-> "none", value |-> Unbound]

\* reading new_label_id: NameError when the name was never bound
read_new_label_id(v) == IF v = Unbound THEN "NameError" ELSE "none"

MainInit ==
    /\ script = ScriptA
    /\ CLIENT_ID \in EnvValues
    /\ CLIENT_SECRET \in EnvValues
    /\ pc = "idle"
    /\ op = NoOp
    /\ access_token = None
    /\ sent = <<>>
    /\ tokenReply = NoReply
    /\ tokenOutcome = NoOutcome
    /\ actionReply = NoReply
    /\ result = Running
    /\ out = <<>>
    /\ fileOpen = FALSE
    /\ calls = 0
    /\ earlier = {}
    /\ mainStep = "start"
    /\ new_label_id = Unbound
    /\ mainExc = "none"

\* an exception raised by a statement of the block itself ends the script
MainRaise(e) ==
    /\ mainExc' = e
    /\ pc' = "terminated"
    /\ UNCHANGED <<script, CLIENT_ID, CLIENT_SECRET, op, access_token, sent, tokenReply,
                   tokenOutcome, actionReply, result, out, fileOpen, calls, earlier,
                   mainStep, new_label_id>>

Main_create_label ==
    /\ mainStep = "start"
    /\ Begin([name |-> "create_label", label_name |-> new_label_name,
              description |-> new_label_desc])
    /\ mainStep' = "create_label"
    /\ UNCHANGED <<new_label_id, mainExc>>

Main_add_label_proof ==
    /\ mainStep = "create_label"
    /\ pc = "idle"
    /\ LET label_response == result.value
           b == bind_new_label_id(label_response) IN
       IF b.exc # "none"
         THEN MainRaise(b.exc)
         ELSE IF read_new_label_id(b.value) # "none"
           THEN MainRaise(read_new_label_id(b.value))
           ELSE /\ new_label_id' = b.value
                /\ Begin([file_to_upload |-> file_path, content_type |-> None,
                          name |-> "add_label_proof",
                          label_id |-> PyFormat(b.value)])
                /\ mainStep' = "add_label_proof"
                /\ UNCHANGED mainExc

Main_link_A ==
    /\ mainStep = "add_label_proof"
    /\ pc = "idle"
    /\ Begin([control_id |-> control_id_A, name |-> "link_label_to_control",
              label_id |-> PyFormat(new_label_id)])
    /\ mainStep' = "link_A"
    /\ UNCHANGED <<new_label_id, mainExc>>

Main_link_B ==
    /\ mainStep = "link_A"
    /\ pc = "idle"
    /\ Begin([control_id |-> control_id_B, name |-> "link_label_to_control",
              label_id |-> PyFormat(new_label_id)])
    /\ mainStep' = "link_B"
    /\ UNCHANGED <<new_label_id, mainExc>>

\* the last statement has returned: the script ends
Main_done ==
    /\ mainStep = "link_B"
    /\ pc = "idle"
    /\ mainStep' = "done"
    /\ pc' = "terminated"
    /\ UNCHANGED <<script, CLIENT_ID, CLIENT_SECRET, op, access_token, sent, tokenReply,
                   tokenOutcome, actionReply, result, out, fileOpen, calls, earlier,
                   new_label_id, mainExc>>

MainNext ==
    \/ Main_create_label
    \/ Main_add_label_proof
    \/ Main_link_A
    \/ Main_link_B
    \/ Main_done
    \/ TokenReply
    \/ ActionReply

MainSpec == MainInit /\ [][MainNext]_vars

\* ------------------------------------------------------------------------
\* Vocabulary of the properties
\* ------------------------------------------------------------------------
\* the get_access_token call of the invocation has ended
TokenCallEnded == tokenOutcome.exc # "pending"
\* the action requests the invocation has issued
ActionRequests == SelectSeq(sent, LAMBDA q : q.to = "action")
\* a line of output is among what the invocation printed or logged
Printed(line) == \E i \in 1..Len(out) : out[i] = line
\* an endpoint answered with an HTTP status in a given set
Answered(r, codes) == r # NoReply /\ ~r.raised /\ r.status \in codes

\* the token endpoint answered 200 with a JSON object whose access_token
\* is a non-empty string
TokenGranted(r) ==
    /\ ~r.raised
    /\ r.status = 200
    /\ r.body.ok
    /\ r.body.value.t = "dict"
    /\ "access_token" \in DOMAIN r.body.value.d
    /\ r.body.value.d["access_token"].t = "str"
    /\ r.body.value.d["access_token"].s # ""

\* ------------------------------------------------------------------------
\* C1: get_access_token returns the token string exactly when the token
\* endpoint answers 200 with a JSON body whose access_token is present and
\* non-empty; for every other answer it returns None and does not raise.
\* ------------------------------------------------------------------------
C1_TokenContract ==
    TokenCallEnded =>
        /\ tokenOutcome.exc = "none"
        /\ IF TokenGranted(tokenReply)
             THEN tokenOutcome.ret = tokenReply.body.value.d["access_token"]
             ELSE tokenOutcome.ret = None

\* ------------------------------------------------------------------------
\* C2: with CLIENT_ID or CLIENT_SECRET unset or empty, every operation
\* halts before any HTTP request, token or action, is issued.
\* ------------------------------------------------------------------------
CredentialsAbsent ==
    \/ CLIENT_ID \in {None, Str("")}
    \/ CLIENT_SECRET \in {None, Str("")}

C2_NoRequestWithoutCredentials ==
    (CredentialsAbsent /\ op # NoOp) =>
        /\ sent = <<>>
        /\ result.kind = "exit"

\* ------------------------------------------------------------------------
\* C3: in every upload operation, once a token has been obtained, a file
\* path that does not exist makes the operation log an error and return
\* None; no exception escapes and no action request is issued.
\* ------------------------------------------------------------------------
MissingFileCase ==
    /\ op.name \in UploadOps
    /\ TokenCallEnded
    /\ Truthy(access_token)
    /\ op.file_to_upload \notin ExistingFiles

C3_MissingFileReturnsNone ==
    MissingFileCase =>
        /\ pc = "idle"
        /\ result = Return(None)
        /\ Printed("logger.error:File not found")
        /\ ActionRequests = <<>>

C3_Witness ==
    /\ MissingFileCase
    /\ op.name = "add_label_proof"
    /\ result = Return(None)

\* ------------------------------------------------------------------------
\* C4: a 401 or 403 answer from any endpoint (token, controls list, every
\* proof, label and link action) is reported as an HTTP error and the
\* function that made the request returns None.
\* ------------------------------------------------------------------------
C4_AuthErrorsReported ==
    /\ (TokenCallEnded /\ Answered(tokenReply, {401, 403})) =>
           /\ tokenOutcome.exc = "none"
           /\ tokenOutcome.ret = None
           /\ tokenOutcome.out # <<>>
    /\ Answered(actionReply, {401, 403}) =>
           /\ result = Return(None)
           /\ \/ Printed("logger.error:HTTP error")
              \/ Printed("print:API returned status code")

\* ------------------------------------------------------------------------
\* C5: create_label sends Content-Type application/json and a JSON body;
\* every proof upload is multipart without a Content-Type header, and the
\* file part carries an explicit MIME type only when the caller supplied a
\* content_type override.
\* ------------------------------------------------------------------------
\* the file part of a multipart request carries an explicit MIME type
HasMime(q) == Len(q.files.proof) = 3

\* what C5 says of create_label's request and of the encoding of uploads
C5_Encoding(q) ==
    /\ op.name = "create_label" =>
           /\ "Content-Type" \in DOMAIN q.headers
           /\ q.headers["Content-Type"] = "application/json"
           /\ "json" \in DOMAIN q
           /\ "files" \notin DOMAIN q
           /\ "data" \notin DOMAIN q
    /\ op.name \in UploadOps =>
           /\ "files" \in DOMAIN q
           /\ "json" \notin DOMAIN q
           /\ "Content-Type" \notin DOMAIN q.headers

\* the claim as stated: a MIME type only with a content_type from the caller
C5_MimeOnlyOnOverride ==
    \A i \in 1..Len(ActionRequests) :
        LET q == ActionRequests[i] IN
        /\ C5_Encoding(q)
        /\ op.name \in UploadOps =>
               (HasMime(q) => /\ "content_type" \in DOMAIN op
                              /\ op.content_type # None)

\* the claim as amended: add_proof, which takes no content_type, always
\* sends application/json; the other uploads send a MIME type exactly when
\* the caller passed a non-empty content_type, and then send that one
C5_MimeOnOverrideOrAddProof ==
    \A i \in 1..Len(ActionRequests) :
        LET q == ActionRequests[i] IN
        /\ C5_Encoding(q)
        /\ op.name = "add_proof" =>
               /\ HasMime(q)
               /\ q.files.proof[3] = "application/json"
        /\ op.name \in UploadOps \ {"add_proof"} =>
               /\ HasMime(q) <=> (op.content_type.t = "str" /\ op.content_type.s # "")
               /\ HasMime(q) => q.files.proof[3] = op.content_type.s

C5_Witness ==
    /\ op.name = "add_proof_version"
    /\ op.content_type = Str("application/pdf")
    /\ Len(ActionRequests) = 1
    /\ HasMime(ActionRequests[1])

\* ------------------------------------------------------------------------
\* C6: in both scripts add_control_proof(c, file), with a token and an
\* existing file, issues exactly one POST whose path is
\* /v1/controls/<c>/proof, the file attached as the `proof` part.
\* ------------------------------------------------------------------------
C6_ControlProofUrl ==
    (/\ op.name = "add_control_proof"
     /\ TokenCallEnded
     /\ Truthy(access_token)
     /\ op.file_to_upload \in ExistingFiles) =>
        /\ Len(ActionRequests) = 1
        /\ ActionRequests[1].method = "POST"
        /\ UrlPath(ActionRequests[1].url)
               = <<"/", "v1", "/", "controls", "/", op.control_id, "/", "proof">>
        /\ ActionRequests[1].files.proof[1] = op.file_to_upload
        /\ ActionRequests[1].files.proof[2] = FileObj(op.file_to_upload)

\* ------------------------------------------------------------------------
\* C7: add_proof_version posts to /v1/proof/<p>/versions, add_label_proof
\* to /v1/labels/<l>/proof and link_label_to_control to
\* /v1/controls/<c>/labels/<l>, none with an empty path segment.
\* ------------------------------------------------------------------------
NoEmptySegment(path) ==
    \A i \in 1..(Len(path) - 1) : ~(path[i] = "/" /\ path[i + 1] = "/")

C7_SubResourceUrls ==
    \A i \in 1..Len(ActionRequests) :
        LET q == ActionRequests[i] IN
        /\ op.name = "add_proof_version" =>
               /\ q.method = "POST"
               /\ UrlPath(q.url) = <<"/", "v1", "/", "proof", "/", op.proof_id, "/", "versions">>
        /\ op.name = "add_label_proof" =>
               /\ q.method = "POST"
               /\ UrlPath(q.url) = <<"/", "v1", "/", "labels", "/", op.label_id, "/", "proof">>
        /\ op.name = "link_label_to_control" =>
               /\ q.method = "POST"
               /\ UrlPath(q.url) = <<"/", "v1", "/", "controls", "/", op.control_id,
                                     "/", "labels", "/", op.label_id>>
        /\ op.name \in {"add_proof_version", "add_label_proof", "link_label_to_control"} =>
               NoEmptySegment(UrlPath(q.url))

\* ------------------------------------------------------------------------
\* C8: when get_access_token yields no token (None or empty), the process
\* exits with status 1, no action request is issued in that run, and the
\* operation returns nothing to its caller.
\* ------------------------------------------------------------------------
NoTokenCase ==
    /\ TokenCallEnded
    /\ tokenOutcome.exc = "none"
    /\ tokenOutcome.ret \in {None, Str("")}

C8_NoTokenExits ==
    NoTokenCase =>
        /\ pc = "terminated"
        /\ result = Exit(1)
        /\ ActionRequests = <<>>

C8_Witness ==
    /\ NoTokenCase
    /\ op.name = "link_label_to_control"
    /\ Answered(tokenReply, {500})
    /\ result = Exit(1)

\* ------------------------------------------------------------------------
\* C9: every invocation ends by returning a payload, returning True,
\* logging a failure and returning None, or exiting with a non-zero
\* status; no exception propagates to the caller, whatever the endpoints
\* answer.
\* ------------------------------------------------------------------------
C9_NoExceptionEscapes ==
    /\ result.kind \in {"running", "return", "exit"}
    /\ result.kind = "exit" => result.status # 0
    /\ result.kind = "return" => result.value.t \in {"None", "bool", "dict", "list"}
    /\ result.kind = "running" => pc \in {"idle", "token_wait", "action_wait"}

\* ------------------------------------------------------------------------
\* C10: link_label_to_control sends a POST without a body and returns True
\* exactly when that POST is answered with a status below 400; in every
\* other case with a token it returns None; it never returns the payload.
\* ------------------------------------------------------------------------
C10_LinkReturnsTrueIffOk ==
    (op.name = "link_label_to_control" /\ result.kind = "return") =>
        /\ Len(ActionRequests) = 1
        /\ ActionRequests[1].method = "POST"
        /\ DOMAIN ActionRequests[1] \cap {"data", "json", "files"} = {}
        /\ result.value \in {True, None}
        /\ result.value = True <=> (~actionReply.raised /\ actionReply.status < 400)

C10_Witness ==
    /\ op.name = "link_label_to_control"
    /\ result = Return(True)
    /\ Answered(actionReply, {201})
    /\ actionReply.body = Decoded(Dict([k \in {"id"} |-> Str("N1")]))


\* ------------------------------------------------------------------------
\* C11: add_proof, add_proof_version, add_control_proof, add_label_proof
\* and create_label return the parsed JSON body, a value that is not None,
\* whenever the action request is answered with a 2xx status; they return
\* None only when the request failed.
\* ------------------------------------------------------------------------
PayloadOps == UploadOps \cup {"create_label"}

\* the action request failed: it was never sent, the transport raised, or
\* the answer has an error status
ActionFailed ==
    \/ actionReply = NoReply
    \/ actionReply.raised
    \/ actionReply.status >= 400

\* the claim as stated
C11_SuccessReturnsBody ==
    (op.name \in PayloadOps /\ result.kind = "return") =>
        /\ Answered(actionReply, 200..299) =>
               /\ actionReply.body.ok
               /\ result.value = actionReply.body.value
               /\ result.value # None
        /\ result.value = None => ActionFailed

\* the claim as amended: the decoded body is returned when the status is
\* below 400 and the body decodes (None for the JSON value null); None is
\* returned in every other case, a 2xx answer without a JSON body included
C11_DecodedBodyReturned ==
    (op.name \in PayloadOps /\ result.kind = "return") =>
        IF Answered(actionReply, 100..399) /\ actionReply.body.ok
          THEN result.value = actionReply.body.value
          ELSE result.value = None

C11_Witness ==
    /\ op.name = "create_label"
    /\ Answered(actionReply, {204})
    /\ ~actionReply.body.ok
    /\ result = Return(None)
    /\ Printed("logger.info:created label")


\* ------------------------------------------------------------------------
\* C12: each failure of get_access_token - network failure, non-200
\* answer, 200 answer without an access_token field, malformed JSON body -
\* prints an error message besides returning None, and the token request
\* is not issued a second time.
\* ------------------------------------------------------------------------
TokenRequests == SelectSeq(sent, LAMBDA q : q.to = "token")

\* one of the four failures the claim names
TokenFailure(r) ==
    \/ r.raised
    \/ r.status # 200
    \/ ~r.body.ok
    \/ r.body.value.t = "dict" /\ "access_token" \notin DOMAIN r.body.value.d

C12_TokenFailuresReported ==
    (TokenCallEnded /\ TokenFailure(tokenReply)) =>
        /\ tokenOutcome.exc = "none"
        /\ tokenOutcome.ret = None
        /\ tokenOutcome.out # <<>>
        /\ Len(TokenRequests) = 1


\* ------------------------------------------------------------------------
\* C13: within one invocation there is at most one token request and at
\* most one action request (no retry), the action request is issued only
\* after the token request returned a token, and an invocation that
\* returns after sending its action request has issued exactly two
\* requests.
\* ------------------------------------------------------------------------
C13_TokenThenAction ==
    /\ Len(TokenRequests) <= 1
    /\ Len(ActionRequests) <= 1
    /\ ActionRequests # <<>> =>
           /\ Len(sent) = 2
           /\ sent[1].to = "token"
           /\ sent[2].to = "action"
           /\ TokenCallEnded
           /\ tokenOutcome.exc = "none"
           /\ Truthy(tokenOutcome.ret)
    /\ (result.kind = "return" /\ ActionRequests # <<>>) => Len(sent) = 2

C13_Witness ==
    /\ result = Return(None)
    /\ actionReply # NoReply
    /\ actionReply.raised
    /\ Len(sent) = 2

\* ------------------------------------------------------------------------
\* C14: no token is cached or reused across invocations: an invocation
\* that reaches its action request has issued its own token request first,
\* and the bearer token of the action request is the token that this
\* token request returned, never one obtained by an earlier invocation.
\* ------------------------------------------------------------------------
C14_OwnTokenUsed ==
    \A i \in 1..Len(ActionRequests) :
        /\ Len(TokenRequests) = 1
        /\ sent[1].to = "token"
        /\ TokenGranted(tokenReply)
        /\ ActionRequests[i].headers["Authorization"]
               = "Bearer " \o tokenReply.body.value.d["access_token"].s

\* a second invocation sends its action request with its own token while
\* an earlier invocation had obtained a different one
C14_Witness ==
    /\ calls = 2
    /\ earlier = {"tokA"}
    /\ Len(ActionRequests) = 1
    /\ ActionRequests[1].headers["Authorization"] = "Bearer tokB"


\* ------------------------------------------------------------------------
\* C15: in every upload the file handle is open while the action request
\* is being sent and is closed on every exit path - success, HTTP error
\* status, transport exception, JSON decode failure - so no handle opened
\* by an operation is open when the operation has returned.
\* ------------------------------------------------------------------------
C15_FileClosedOnReturn ==
    /\ (pc = "action_wait" /\ op.name \in UploadOps) => fileOpen
    /\ pc \in {"idle", "terminated"} => ~fileOpen
    /\ fileOpen => (op.name \in UploadOps /\ op.file_to_upload \in ExistingFiles)

\* an upload has returned through the HTTPError handler
C15_Witness ==
    /\ op.name = "add_control_proof"
    /\ pc = "idle"
    /\ Answered(actionReply, {403})
    /\ result = Return(None)
    /\ ~fileOpen


\* ------------------------------------------------------------------------
\* C16: in the __main__ flow of add_proof_to_control.py, whatever the API
\* calls answer, the steps run in the order create_label, add_label_proof,
\* link to control A, link to control B; add_label_proof and the links are
\* issued only with the id of a label create_label returned; and no
\* statement of the block raises (a None from create_label is never
\* dereferenced or used as a label id).
\* ------------------------------------------------------------------------
C16_MainFlowSafe ==
    /\ mainExc = "none"
    /\ mainStep = "create_label" => op.name = "create_label"
    /\ mainStep = "add_label_proof" => op.name = "add_label_proof"
    /\ mainStep \in {"link_A", "link_B", "done"} => op.name = "link_label_to_control"
    /\ mainStep \in {"add_label_proof", "link_A", "link_B", "done"} =>
         /\ new_label_id # Unbound
         /\ op.label_id = PyFormat(new_label_id)

====
